---- MODULE Spec2Model ----
(***************************************************************************)
(* Verification-resolution subsystem of tuxmate:                           *)
(*   src/src/lib/verification.ts   (caches, bulk fetch, per-item fetch,    *)
(*                                  synchronous queries, cache clearing)   *)
(*   src/src/hooks/useVerification.ts (the Resolver: mount effect, flags,  *)
(*                                  isVerified / getVerificationType)      *)
(*                                                                         *)
(* An async function is modelled as a process whose steps are the pieces   *)
(* of code between two awaits: JavaScript runs each piece to completion,   *)
(* so each piece is one atomic action.  The remote servers are the         *)
(* environment: every response is chosen nondeterministically.             *)
(***************************************************************************)
EXTENDS Integers, Sequences, FiniteSets, TLC

(***************************************************************************)
(* Bounds of the model.                                                    *)
(***************************************************************************)
\* hits carried by one page of the Flathub collection
MaxHits == 1
\* calls of fetchSnapVerification
MaxSnapCalls == 3
\* calls of fetchAllSnapVerifications in one behaviour
MaxManyCalls == 1

(***************************************************************************)
(* Program constants.                                                      *)
(***************************************************************************)
\* "if (page > 10) break": the safety limit of the pagination loop
SafetyLimit == 10

\* null / undefined is the empty tuple, a present value v is <<v>>
Null == <<>>
Some(v) == <<v>>
Val(o) == o[1]

\* the app id the Flathub collection may list; "" is an empty or missing app_id
ServedIds == {"org.a"}
\* an app id no source ever mentions
UnseenId == "org.z"
AppIds == ServedIds \cup {UnseenId}

\* names handed to the Snap functions: bare names and names with a qualifier
SnapNames == {"code", "code --classic", "foo", "foo --classic"}
\* a Snap name no source ever mentions
UnseenSnap == "bar"

Distros == {"flatpak", "snap", "ubuntu"}

\* the callers of fetchFlathubVerifiedApps: the hook's mount effect and one
\* other caller of the exported function (another component, a test)
Callers == {"hook", "direct"}

KNOWN_VERIFIED_SNAP_PACKAGES ==
    { "firefox", "thunderbird", "chromium", "vlc", "brave", "spotify", "code",
      "intellij-idea-community", "intellij-idea-ultimate", "pycharm-community",
      "pycharm-professional", "slack", "discord", "signal-desktop",
      "telegram-desktop", "zoom-client", "obsidian", "bitwarden", "blender",
      "gimp", "inkscape", "krita", "libreoffice", "obs-studio", "node", "go",
      "rustup", "ruby", "cmake", "docker", "kubectl", "steam", "retroarch",
      "vivaldi" }

VARIABLES
    flathubVerifiedCache,   \* Null, or Some(set of app ids)
    snapVerifiedCache,      \* a function: the Map's keys -> BOOLEAN
    call,                   \* per caller: its call of fetchFlathubVerifiedApps
    overlap,                \* pairs of callers whose current calls ran at the same time
    completed,              \* callers whose current call completed since the last clear
    cleared,                \* the caches were cleared and no bulk call began since
    snapCall,               \* per slot: a call of fetchSnapVerification
    nSnapCalls,             \* calls of fetchSnapVerification started so far
    many,                   \* the call of fetchAllSnapVerifications
    isLoading, hasError, flathubLoaded, snapLoaded,   \* the hook's useState values
    fetchedRef,             \* the hook's useRef latch
    effect,                 \* position of fetchVerificationData: idle, awaiting, settled
    remounted               \* the effect ran again after the latch was set

vars == << flathubVerifiedCache, snapVerifiedCache, call, overlap,
           completed, cleared, snapCall, nSnapCalls, many, isLoading, hasError,
           flathubLoaded, snapLoaded, fetchedRef, effect, remounted >>

bulkVars == << flathubVerifiedCache, call, overlap, completed, cleared >>
snapVars == << snapVerifiedCache, snapCall, nSnapCalls, many >>
hookVars == << isLoading, hasError, flathubLoaded, snapLoaded, fetchedRef, effect,
              remounted >>

(***************************************************************************)
(* String helper: snapName.split(' ')[0]                                   *)
(***************************************************************************)
RECURSIVE FirstSpace(_, _)
FirstSpace(s, i) ==
    IF i > Len(s) THEN 0
    ELSE IF SubSeq(s, i, i) = " " THEN i
    ELSE FirstSpace(s, i + 1)

CleanName(s) ==
    LET k == FirstSpace(s, 1)
    IN  IF k = 0 THEN s ELSE SubSeq(s, 1, k - 1)

(***************************************************************************)
(* The Flathub collection endpoint as the code reads it.                   *)
(***************************************************************************)
\* one element of data.hits: a hit object, or null (reading a field of it throws)
Hit == [app_id : ServedIds \cup {""}, verification_verified : BOOLEAN]
HitVals == {Null} \cup {Some(h) : h \in Hit}
HitLists == UNION {[1..n -> HitVals] : n \in 0..MaxHits}

\* data.totalPages: missing, a last page, or a server that always reports more
\* pages than the loop will ever read
TotalPagesVals == {Null, Some(1), Some(SafetyLimit + 1)}

\* a parsed body; Null is a body response.json() rejects
Payloads == [hits : HitLists, totalPages : TotalPagesVals]
Bodies == {Null} \cup {Some(d) : d \in Payloads}

\* how the promise of fetch() settles: a response with ok, a response with a
\* non-success status, or a rejection (network error, 10 s timeout)
FetchOutcomes == {"ok", "status", "reject"}

\* "page < data.totalPages": false when totalPages is undefined
PageLess(page, totalPages) == totalPages # Null /\ page < Val(totalPages)

\* AddHits with the test of verification_verified left out
RECURSIVE AddHitsAnyFlag(_, _, _)
AddHitsAnyFlag(apps, hits, i) ==
    IF i > Len(hits) THEN [apps |-> apps, threw |-> FALSE]
    ELSE IF hits[i] = Null THEN [apps |-> apps, threw |-> TRUE]
    ELSE LET hit == Val(hits[i])
         IN  AddHitsAnyFlag(IF hit.app_id # ""
                            THEN apps \cup {hit.app_id} ELSE apps,
                            hits, i + 1)

\* the for-of loop over data.hits: the set after the loop, and whether the loop
\* threw on a null hit (what was added before the throw stays in the set)
RECURSIVE AddHits(_, _, _)
AddHits(apps, hits, i) ==
    IF i > Len(hits) THEN [apps |-> apps, threw |-> FALSE]
    ELSE IF hits[i] = Null THEN [apps |-> apps, threw |-> TRUE]
    ELSE LET hit == Val(hits[i])
         IN  AddHits(IF hit.verification_verified /\ hit.app_id # ""
                     THEN apps \cup {hit.app_id} ELSE apps,
                     hits, i + 1)

\* what a page says, read off the payload alone: the identifiers whose trust
\* flag is true
TrustedOn(hits) ==
    {Val(hits[i]).app_id : i \in {j \in 1..Len(hits) :
          hits[j] # Null /\ Val(hits[j]).verification_verified}} \ {""}

(***************************************************************************)
(* fetchFlathubVerifiedApps                                                *)
(***************************************************************************)
\* pc: idle (not called), awaitFetch, awaitJson, done (the promise resolved),
\* rejected (the promise rejected).  page, verifiedApps, lastTotal are the
\* locals.  The other fields record what the call did: the pages requested, the
\* number of pages read and the identifiers flagged on them, how the call
\* ended (cached: line 119; last: the server reported no more pages; limit: the
\* safety limit; status: line 143; transport: fetch rejected; payload: the
\* body could not be read), and the callers whose call had completed when this
\* one started.
IdleCall ==
    [ pc |-> "idle", page |-> 0, verifiedApps |-> {}, lastTotal |-> Null,
      result |-> Null, requested |-> <<>>, nServed |-> 0, served |-> {},
      ended |-> "", after |-> {} ]

InFlight(c) == call[c].pc \in {"awaitFetch", "awaitJson"}

\* the pairs of calls running at the same time once c starts a new call
OverlapAfterStart(c) ==
    {p \in overlap : c \notin p} \cup
    {{c, d} : d \in {e \in Callers \ {c} : InFlight(e)}}

\* lines 116-139: the call up to its first await
StartCall(c) ==
    /\ call' = [d \in Callers |->
          IF d # c
          THEN [call[d] EXCEPT !.after = @ \ {c}]
          ELSE IF flathubVerifiedCache # Null
          THEN [IdleCall EXCEPT !.pc = "done", !.result = flathubVerifiedCache,
                                !.ended = "cached", !.after = completed \ {c}]
          ELSE [IdleCall EXCEPT !.pc = "awaitFetch", !.page = 1,
                                !.requested = <<1>>, !.after = completed \ {c}]]
    /\ overlap' = OverlapAfterStart(c)
    /\ cleared' = FALSE
    /\ completed' = IF flathubVerifiedCache # Null
                    THEN completed \cup {c} ELSE completed \ {c}
    /\ UNCHANGED flathubVerifiedCache

\* lines 166-168: cache the result and return it (the locals go out of scope)
Finish(c, apps, why) ==
    /\ flathubVerifiedCache' = Some(apps)
    /\ call' = [call EXCEPT ![c] =
          [@ EXCEPT !.pc = "done", !.result = Some(apps), !.ended = why,
                    !.page = 0, !.verifiedApps = {}, !.lastTotal = Null]]
    /\ completed' = completed \cup {c}
    /\ UNCHANGED << overlap, cleared >>

\* the exported function called by somebody other than the hook
DirectCall ==
    /\ call["direct"].pc \in {"idle", "done"}
    /\ StartCall("direct")
    /\ UNCHANGED << snapVars, hookVars >>

\* lines 130-144 and 161-164: the fetch of the current page settles, in one of
\* the ways the server allows
FetchSettles(c, outcomes) ==
    /\ call[c].pc = "awaitFetch"
    /\ \E outcome \in outcomes :
          CASE outcome = "ok" ->
                  /\ call' = [call EXCEPT ![c].pc = "awaitJson"]
                  /\ UNCHANGED << flathubVerifiedCache, overlap, completed, cleared >>
            [] outcome = "status" -> Finish(c, call[c].verifiedApps, "status")
            [] outcome = "reject" -> Finish(c, call[c].verifiedApps, "transport")
    /\ UNCHANGED << snapVars, hookVars >>

\* AfterPage with the safety limit off by one
AfterPageLateLimit(c, apps, data) ==
    LET hasMore == PageLess(call[c].page, data.totalPages)
        page    == call[c].page + 1
    IN  IF page > SafetyLimit + 1 \/ ~hasMore
        THEN Finish(c, apps, IF hasMore THEN "limit" ELSE "last")
        ELSE /\ call' = [call EXCEPT ![c] =
                   [@ EXCEPT !.pc = "awaitFetch", !.page = page,
                             !.verifiedApps = apps,
                             !.lastTotal = data.totalPages,
                             !.requested = Append(@, page),
                             !.nServed = @ + 1,
                             !.served = @ \cup TrustedOn(data.hits)]]
             /\ UNCHANGED << flathubVerifiedCache, overlap, completed, cleared >>

\* lines 155-160 and 129-130: after a page was read, stop or ask for the next
AfterPage(c, apps, data) ==
    LET hasMore == PageLess(call[c].page, data.totalPages)
        page    == call[c].page + 1
    IN  IF page > SafetyLimit \/ ~hasMore
        THEN Finish(c, apps, IF hasMore THEN "limit" ELSE "last")
        ELSE /\ call' = [call EXCEPT ![c] =
                   [@ EXCEPT !.pc = "awaitFetch", !.page = page,
                             !.verifiedApps = apps,
                             !.lastTotal = data.totalPages,
                             !.requested = Append(@, page),
                             !.nServed = @ + 1,
                             !.served = @ \cup TrustedOn(data.hits)]]
             /\ UNCHANGED << flathubVerifiedCache, overlap, completed, cleared >>

\* lines 146-164: response.json() settles, with one of the bodies the server
\* allows
JsonSettles(c, bodies) ==
    /\ call[c].pc = "awaitJson"
    /\ \E body \in bodies :
          IF body = Null
          THEN Finish(c, call[c].verifiedApps, "payload")
          ELSE LET data == Val(body)
                   r    == AddHits(call[c].verifiedApps, data.hits, 1)
               IN  IF r.threw
                   THEN Finish(c, r.apps, "payload")
                   ELSE AfterPage(c, r.apps, data)
    /\ UNCHANGED << snapVars, hookVars >>

\* any server
FetchResolve(c) == FetchSettles(c, FetchOutcomes)
JsonResolve(c) == JsonSettles(c, Bodies)

\* a server whose collection has one page, empty or listing one verified app,
\* and that may answer with a non-success status
QuietOutcomes == {"ok", "status"}
QuietBodies ==
    { Some([hits |-> << >>, totalPages |-> Some(1)]),
      Some([hits |-> << Some([app_id |-> "org.a", verification_verified |-> TRUE]) >>,
            totalPages |-> Some(1)]) }
QuietFetchResolve == FetchSettles("hook", QuietOutcomes)
QuietJsonResolve == JsonSettles("hook", QuietBodies)

(***************************************************************************)
(* fetchSnapVerification                                                   *)
(***************************************************************************)
SnapSlots == {"s1", "s2"}

\* data.snap?.publisher?.validation of a parsed body; a Null body is one that
\* response.json() rejects, or one that is not an object
Validations == {Null, Some("verified"), Some("unproven")}
SnapBodies == {Null} \cup {Some([validation |-> v]) : v \in Validations}

\* asked is the name put into the request URL, Null when no request was made;
\* failed tells that the call ended on one of its failure paths (lines 196-199
\* and 207-212)
IdleSnapCall ==
    [pc |-> "idle", snapName |-> "", result |-> Null, asked |-> Null,
     failed |-> FALSE]

\* Map.has, Map.get, Map.set and the ?? operator
MapHas(m, k) == k \in DOMAIN m
MapGet(m, k) == IF k \in DOMAIN m THEN Some(m[k]) ELSE Null
MapSet(m, k, v) == [x \in DOMAIN m \cup {k} |-> IF x = k THEN v ELSE m[x]]
Coalesce(a, b) == IF a # Null THEN a ELSE b

\* lines 175-194: a call of fetchSnapVerification(snapName) at its first await,
\* or returned from the cache
SnapCallBegun(snapName) ==
    IF MapHas(snapVerifiedCache, snapName)
    THEN [IdleSnapCall EXCEPT !.pc = "done", !.snapName = snapName,
               !.result = MapGet(snapVerifiedCache, snapName)]
    ELSE [IdleSnapCall EXCEPT !.pc = "awaitFetch", !.snapName = snapName,
               !.asked = Some(CleanName(snapName))]

\* lines 175-194: the call up to its first await
SnapStart(s, snapName) ==
    /\ snapCall[s].pc \in {"idle", "done"}
    /\ nSnapCalls < MaxSnapCalls
    /\ nSnapCalls' = nSnapCalls + 1
    /\ snapCall' = [snapCall EXCEPT ![s] = SnapCallBegun(snapName)]
    /\ UNCHANGED << snapVerifiedCache, many, bulkVars, hookVars >>

\* snapVerifiedCache.set(snapName, v); return v
SnapFinish(s, v, failed) ==
    /\ snapVerifiedCache' = MapSet(snapVerifiedCache, snapCall[s].snapName, v)
    /\ snapCall' = [snapCall EXCEPT ![s].pc = "done", ![s].result = Some(v),
                                     ![s].failed = failed]

\* lines 185-199 and 207-212: the fetch settles
SnapFetchResolve(s) ==
    /\ snapCall[s].pc = "awaitFetch"
    /\ \E outcome \in FetchOutcomes :
          IF outcome = "ok"
          THEN /\ snapCall' = [snapCall EXCEPT ![s].pc = "awaitJson"]
               /\ UNCHANGED snapVerifiedCache
          ELSE SnapFinish(s, FALSE, TRUE)
    /\ UNCHANGED << nSnapCalls, many, bulkVars, hookVars >>

\* lines 201-212: response.json() settles
SnapJsonResolve(s) ==
    /\ snapCall[s].pc = "awaitJson"
    /\ \E body \in SnapBodies :
          IF body = Null
          THEN SnapFinish(s, FALSE, TRUE)
          ELSE SnapFinish(s, Val(body).validation = Some("verified"), FALSE)
    /\ UNCHANGED << nSnapCalls, many, bulkVars, hookVars >>

(***************************************************************************)
(* fetchAllSnapVerifications                                               *)
(***************************************************************************)
BATCH_SIZE == 5

\* the lists passed as snapPackages: empty, with duplicates, longer than one
\* batch, longer than two batches
Twelve == << "code", "foo", "vlc", "gimp", "node", "go", "zoom", "curl",
             "htop", "jq", "yq", "xz" >>
ManyInputs ==
    { << >>, << "foo", "foo --classic", "foo", "code" >>, SubSeq(Twelve, 1, 7),
      Twelve }

Elems(list) == {list[k] : k \in 1..Len(list)}

\* the calls of fetchSnapVerification made by fetchAllSnapVerifications, one
\* slot per package name
ManySlots == UNION {Elems(list) : list \in ManyInputs}

\* [...new Set(snapPackages)]: the first occurrences, in order
RECURSIVE Unique(_)
Unique(list) ==
    IF list = << >> THEN << >>
    ELSE LET front == Unique(SubSeq(list, 1, Len(list) - 1))
             last  == list[Len(list)]
         IN  IF last \in Elems(front) THEN front ELSE Append(front, last)

\* Array.prototype.slice(from, to) for 0 <= from <= to
Slice(list, from, to) ==
    SubSeq(list, from + 1, IF to < Len(list) THEN to ELSE Len(list))

\* the batch that begins at index i taking one package too many
BatchAtOneMore(uniquePackages, i) == Slice(uniquePackages, i, i + BATCH_SIZE + 1)

\* line 229: the batch that begins at index i
BatchAt(uniquePackages, i) == Slice(uniquePackages, i, i + BATCH_SIZE)

\* input is the argument; issued lists the batches in the order their calls
\* were made; someFailed tells that a call whose result was stored had ended
\* on a failure path; calls counts the calls of fetchAllSnapVerifications
IdleMany ==
    [pc |-> "idle", input |-> << >>, uniquePackages |-> << >>, i |-> 0,
     results |-> << >>, issued |-> << >>, someFailed |-> FALSE, calls |-> 0]

\* lines 228-235 and 242: the loop test, then the calls of the next batch up
\* to the await of Promise.all, or the return; calls are the per-package
\* calls without those of the batch before
LoopTest(m, calls) ==
    IF m.i < Len(m.uniquePackages)
    THEN LET batch == BatchAt(m.uniquePackages, m.i)
         IN  /\ many' = [m EXCEPT !.pc = "awaitBatch",
                                   !.issued = Append(@, batch)]
             /\ snapCall' = [s \in DOMAIN calls |->
                    IF s \in Elems(batch) THEN SnapCallBegun(s) ELSE calls[s]]
    ELSE /\ many' = [m EXCEPT !.pc = "done"]
         /\ UNCHANGED snapCall

\* lines 219-235: the call up to its first await
ManyStart(snapPackages) ==
    /\ many.pc \in {"idle", "done"}
    /\ many.calls < MaxManyCalls
    /\ LoopTest([IdleMany EXCEPT !.input = snapPackages,
                                  !.uniquePackages = Unique(snapPackages),
                                  !.calls = many.calls + 1],
                [s \in DOMAIN snapCall |->
                    IF s \in ManySlots THEN IdleSnapCall ELSE snapCall[s]])
    /\ UNCHANGED << snapVerifiedCache, nSnapCalls, bulkVars, hookVars >>

\* the results of the finished batch put into m
Collected(m, batch) ==
    [m EXCEPT !.results = [p \in DOMAIN @ \cup Elems(batch) |->
                              IF p \in Elems(batch)
                              THEN Val(snapCall[p].result) ELSE @[p]],
              !.someFailed = @ \/ \E p \in Elems(batch) : snapCall[p].failed,
              !.i = @ + BATCH_SIZE]

\* ManyAdvance that gives up at the first batch holding a failed call
ManyAdvanceStopOnFailure ==
    /\ many.pc = "awaitBatch"
    /\ LET batch == BatchAt(many.uniquePackages, many.i)
           released == [s \in DOMAIN snapCall |->
                           IF s \in Elems(batch) THEN IdleSnapCall
                           ELSE snapCall[s]]
       IN  /\ \A p \in Elems(batch) : snapCall[p].pc = "done"
           /\ IF \E p \in Elems(batch) : snapCall[p].failed
              THEN /\ many' = [many EXCEPT !.pc = "done"]
                   /\ snapCall' = released
              ELSE LoopTest(Collected(many, batch), released)
    /\ UNCHANGED << snapVerifiedCache, nSnapCalls, bulkVars, hookVars >>

\* lines 230-240 and 228: Promise.all resolves once every call of the batch
\* has returned; the results are stored and the loop goes on
ManyAdvance ==
    /\ many.pc = "awaitBatch"
    /\ LET batch == BatchAt(many.uniquePackages, many.i)
           released == [s \in DOMAIN snapCall |->
                           IF s \in Elems(batch) THEN IdleSnapCall
                           ELSE snapCall[s]]
       IN  /\ \A p \in Elems(batch) : snapCall[p].pc = "done"
           /\ LoopTest(Collected(many, batch), released)
    /\ UNCHANGED << snapVerifiedCache, nSnapCalls, bulkVars, hookVars >>

(***************************************************************************)
(* clearVerificationCache                                                  *)
(***************************************************************************)
ClearCache ==
    /\ flathubVerifiedCache' = Null
    /\ snapVerifiedCache' = << >>
    /\ completed' = {}
    /\ cleared' = TRUE
    /\ call' = [c \in Callers |-> [call[c] EXCEPT !.after = {}]]
    /\ UNCHANGED << overlap, snapCall, nSnapCalls, many, hookVars >>

(***************************************************************************)
(* useVerification                                                         *)
(***************************************************************************)
\* EffectRun without the test of the latch
EffectRunNoLatch ==
    /\ fetchedRef' = TRUE
    /\ effect' = "awaiting"
    /\ StartCall("hook")
    /\ UNCHANGED << snapVars, isLoading, hasError, flathubLoaded, snapLoaded >>

\* lines 37-44 and 60: the effect; a re-run finds the latch set and returns
EffectRun ==
    IF fetchedRef
    THEN UNCHANGED << bulkVars, snapVars, isLoading, hasError, flathubLoaded,
                      snapLoaded, fetchedRef, effect >>
    ELSE /\ fetchedRef' = TRUE
         /\ effect' = "awaiting"
         /\ StartCall("hook")
         /\ UNCHANGED << snapVars, isLoading, hasError, flathubLoaded,
                         snapLoaded >>

\* the effect runs when the component mounts
MountEffect == EffectRun /\ UNCHANGED remounted

\* the effect runs again in the same component (the ref is kept)
Remount ==
    /\ fetchedRef
    /\ EffectRun
    /\ remounted' = TRUE

\* HookSettle without the finally block
HookSettleNoFinally ==
    /\ effect = "awaiting"
    /\ call["hook"].pc \in {"done", "rejected"}
    /\ effect' = "settled"
    /\ IF call["hook"].pc = "done"
       THEN /\ flathubLoaded' = TRUE
            /\ snapLoaded' = TRUE
            /\ UNCHANGED hasError
       ELSE /\ hasError' = TRUE
            /\ snapLoaded' = TRUE
            /\ UNCHANGED flathubLoaded
    /\ UNCHANGED << bulkVars, snapVars, fetchedRef, isLoading, remounted >>

\* lines 44-57: fetchVerificationData resumes when the awaited promise settles
HookSettle ==
    /\ effect = "awaiting"
    /\ call["hook"].pc \in {"done", "rejected"}
    /\ effect' = "settled"
    /\ IF call["hook"].pc = "done"
       THEN /\ flathubLoaded' = TRUE
            /\ snapLoaded' = TRUE
            /\ UNCHANGED hasError
       ELSE /\ hasError' = TRUE
            /\ snapLoaded' = TRUE
            /\ UNCHANGED flathubLoaded
    /\ isLoading' = FALSE
    /\ UNCHANGED << bulkVars, snapVars, fetchedRef, remounted >>

(***************************************************************************)
(* The synchronous queries                                                 *)
(***************************************************************************)
\* flathubVerifiedCache?.has(appId) ?? false
isFlathubVerified(appId) ==
    IF flathubVerifiedCache = Null THEN FALSE
    ELSE appId \in Val(flathubVerifiedCache)

\* whether sub occurs in s: String.prototype.includes
Includes(s, sub) ==
    \E i \in 1..(Len(s) - Len(sub) + 1) : SubSeq(s, i, i + Len(sub) - 1) = sub

\* isSnapVerified with the containment rule of isUnfreePackage (nixUnfree.ts)
isSnapVerifiedContaining(snapName) ==
    LET cleanName == CleanName(snapName)
    IN  IF \E e \in KNOWN_VERIFIED_SNAP_PACKAGES : Includes(cleanName, e) THEN TRUE
        ELSE Val(Coalesce(MapGet(snapVerifiedCache, cleanName),
                 Coalesce(MapGet(snapVerifiedCache, snapName), Some(FALSE))))

\* isSnapVerified looking into the cache before the static list
isSnapVerifiedCacheFirst(snapName) ==
    LET cleanName == CleanName(snapName)
        cached == Coalesce(MapGet(snapVerifiedCache, cleanName),
                           MapGet(snapVerifiedCache, snapName))
    IN  IF cached # Null THEN Val(cached)
        ELSE cleanName \in KNOWN_VERIFIED_SNAP_PACKAGES

isSnapVerified(snapName) ==
    LET cleanName == CleanName(snapName)
    IN  IF cleanName \in KNOWN_VERIFIED_SNAP_PACKAGES THEN TRUE
        ELSE Val(Coalesce(MapGet(snapVerifiedCache, cleanName),
                 Coalesce(MapGet(snapVerifiedCache, snapName), Some(FALSE))))

\* isVerified without the tests of the loaded flags
isVerifiedUnguarded(distro, packageName) ==
    IF distro = "flatpak" THEN isFlathubVerified(packageName)
    ELSE IF distro = "snap" THEN isSnapVerified(packageName)
    ELSE FALSE

isVerified(distro, packageName) ==
    IF distro = "flatpak" /\ flathubLoaded THEN isFlathubVerified(packageName)
    ELSE IF distro = "snap" /\ snapLoaded THEN isSnapVerified(packageName)
    ELSE FALSE

\* getVerificationType without the tests of the loaded flags
getVerificationTypeUnguarded(distro, packageName) ==
    IF distro = "flatpak" /\ isFlathubVerified(packageName)
    THEN Some("flathub")
    ELSE IF distro = "snap" /\ isSnapVerified(packageName)
    THEN Some("snap")
    ELSE Null

getVerificationType(distro, packageName) ==
    IF distro = "flatpak" /\ flathubLoaded /\ isFlathubVerified(packageName)
    THEN Some("flathub")
    ELSE IF distro = "snap" /\ snapLoaded /\ isSnapVerified(packageName)
    THEN Some("snap")
    ELSE Null

(***************************************************************************)
(* Specifications                                                          *)
(***************************************************************************)
Init ==
    /\ flathubVerifiedCache = Null
    /\ snapVerifiedCache = << >>
    /\ call = [c \in Callers |-> IdleCall]
    /\ overlap = {}
    /\ completed = {}
    /\ cleared = FALSE
    /\ snapCall = [s \in SnapSlots \cup ManySlots |-> IdleSnapCall]
    /\ many = IdleMany
    /\ nSnapCalls = 0
    /\ isLoading = TRUE
    /\ hasError = FALSE
    /\ flathubLoaded = FALSE
    /\ snapLoaded = FALSE
    /\ fetchedRef = FALSE
    /\ effect = "idle"
    /\ remounted = FALSE

\* the Flathub side: the hook, any other caller of the bulk fetch, the clear
Next ==
    \/ MountEffect
    \/ DirectCall
    \/ \E c \in Callers : FetchResolve(c)
    \/ \E c \in Callers : JsonResolve(c)
    \/ HookSettle
    \/ ClearCache

Spec == Init /\ [][Next]_vars

\* every pending promise settles (each request ends by response, error or
\* timeout) and a settled promise resumes the function awaiting it
Fairness ==
    /\ \A c \in Callers : WF_vars(FetchResolve(c)) /\ WF_vars(JsonResolve(c))
    /\ WF_vars(HookSettle)

FairSpec == Spec /\ Fairness

\* the Snap side: the per-item fetches and the clear, with the hook, whose bulk
\* fetch reads a one-page collection (the Flathub responses decide nothing on
\* this side but the moment the hook settles)
SnapNext ==
    \/ MountEffect
    \/ QuietFetchResolve
    \/ QuietJsonResolve
    \/ HookSettle
    \/ \E s \in SnapSlots, n \in SnapNames : SnapStart(s, n)
    \/ \E s \in SnapSlots : SnapFetchResolve(s)
    \/ \E s \in SnapSlots : SnapJsonResolve(s)
    \/ ClearCache

SnapSpec == Init /\ [][SnapNext]_vars

\* fetchAllSnapVerifications with the calls it makes
BatchNext ==
    \/ \E list \in ManyInputs : ManyStart(list)
    \/ \E p \in ManySlots : SnapFetchResolve(p)
    \/ \E p \in ManySlots : SnapJsonResolve(p)
    \/ ManyAdvance

BatchSpec == Init /\ [][BatchNext]_vars

\* the Flathub side with the effect running again
LatchNext ==
    \/ Next
    \/ Remount

LatchSpec == Init /\ [][LatchNext]_vars

(***************************************************************************)
(* Properties                                                              *)
(***************************************************************************)
Pages(c) == {call[c].requested[i] : i \in 1..Len(call[c].requested)}
Done(c) == call[c].pc = "done"
Failures == {"status", "transport", "payload"}
Aborts == {"status", "transport"}

\* C1: two calls of fetchFlathubVerifiedApps that ran at the same time never
\* request the same page twice between them, and when both have returned they
\* have returned the same set.
SingleFlight ==
    \A p \in overlap : \A c \in p : \A d \in p \ {c} :
        /\ Pages(c) \cap Pages(d) = {}
        /\ Done(c) /\ Done(d) => call[c].result = call[d].result

\* C2: once the hook has settled, hasError is true exactly when its bulk fetch
\* met a failure (transport error, non-success status, malformed payload).
HasErrorReportsFailure ==
    effect = "settled" => (hasError <=> call["hook"].ended \in Failures)

\* the identifiers the queries are asked about
QueriedSnaps == SnapNames \cup {UnseenSnap}
InCacheTrue(k) == k \in DOMAIN snapVerifiedCache /\ snapVerifiedCache[k]

\* C3: for every identifier, isVerified('snap', id) is true, and
\* getVerificationType is 'snap', if and only if snapLoaded holds and the
\* canonical identifier is in the static table or is a key of the per-item
\* cache with value true.
SnapQueryIff ==
    \A id \in QueriedSnaps :
        LET expected == snapLoaded /\
                        (\/ CleanName(id) \in KNOWN_VERIFIED_SNAP_PACKAGES
                         \/ InCacheTrue(CleanName(id)))
        IN  /\ isVerified("snap", id) <=> expected
            /\ getVerificationType("snap", id) = Some("snap") <=> expected

\* C4: for every base name n and qualifier q, isVerified('snap', n + ' ' + q)
\* equals isVerified('snap', n).
BaseNames == {"code", "foo", UnseenSnap}
Qualifiers == {"--classic"}
QualifierIgnored ==
    \A n \in BaseNames : \A q \in Qualifiers :
        isVerified("snap", n \o " " \o q) = isVerified("snap", n)

\* C5: for every identifier, isVerified('flatpak', id) is true if and only if
\* flathubLoaded holds and id is in the bulk set, and getVerificationType is
\* 'flathub' exactly when isVerified is true, null otherwise.
FlatpakQueryIff ==
    \A id \in AppIds :
        /\ isVerified("flatpak", id) <=>
               /\ flathubLoaded
               /\ flathubVerifiedCache # Null
               /\ id \in Val(flathubVerifiedCache)
        /\ getVerificationType("flatpak", id) =
               IF isVerified("flatpak", id) THEN Some("flathub") ELSE Null
FlatpakQueryTrue ==
    /\ flathubLoaded
    /\ isVerified("flatpak", "org.a")
    /\ getVerificationType("flatpak", "org.a") = Some("flathub")
    /\ ~isVerified("flatpak", UnseenId)

\* C6: while flathubLoaded (snapLoaded) is false, isVerified is false and
\* getVerificationType is null for every Flatpak (Snap) identifier, also one of
\* the static table or of a cache; and an identifier no source ever mentioned is
\* not verified in any state.
NothingBeforeLoaded ==
    /\ ~flathubLoaded =>
          \A id \in AppIds :
              ~isVerified("flatpak", id) /\ getVerificationType("flatpak", id) = Null
    /\ ~snapLoaded =>
          \A id \in QueriedSnaps :
              ~isVerified("snap", id) /\ getVerificationType("snap", id) = Null
    /\ \A distro \in Distros :
          /\ ~isVerified(distro, UnseenId) /\ ~isVerified(distro, UnseenSnap)
          /\ getVerificationType(distro, UnseenId) = Null
          /\ getVerificationType(distro, UnseenSnap) = Null
CachesFullBeforeLoaded ==
    /\ ~flathubLoaded /\ ~snapLoaded
    /\ flathubVerifiedCache = Some({"org.a"})
    /\ InCacheTrue("foo")
    /\ "code" \in KNOWN_VERIFIED_SNAP_PACKAGES

\* C7: once the mount effect has run, the hook eventually is settled:
\* isLoading false, flathubLoaded and snapLoaded true, whether the bulk fetch
\* succeeded or failed.
Settled == ~isLoading /\ flathubLoaded /\ snapLoaded
MountSettles == fetchedRef ~> Settled
SettledAfterFailure == Settled /\ call["hook"].ended \in Failures

\* C8: the call never rejects; a call that ended on a non-success status or a
\* transport failure of page k has issued k requests, returns the identifiers
\* flagged on pages 1..k-1, and has stored that set in the cache when it returns.
AbortedKeepsEarlierPages ==
    /\ [](\A c \in Callers :
            /\ call[c].pc # "rejected"
            /\ Done(c) /\ call[c].ended \in Aborts =>
                  /\ call[c].result = Some(call[c].served)
                  /\ Len(call[c].requested) = call[c].nServed + 1)
    /\ [][\A c \in Callers :
            ~Done(c) /\ Done(c)' /\ call'[c].ended \in Aborts =>
                flathubVerifiedCache' = Some(call'[c].served)]_vars
AbortedOnSecondPage ==
    \E c \in Callers :
        /\ Done(c) /\ call[c].ended = "status"
        /\ call[c].nServed = 1 /\ call[c].result = Some({"org.a"})

\* C9: a traversal requests pages 1, 2, ... in order, asks for page p+1 only
\* when the server reported more pages on page p, never issues more than 10
\* requests, and every call returns.
InOrder(c) == call[c].requested = [i \in 1..Len(call[c].requested) |-> i]
PaginationTerminates ==
    /\ [](\A c \in Callers :
            /\ InOrder(c)
            /\ Len(call[c].requested) <= SafetyLimit
            /\ InFlight(c) =>
                  /\ call[c].page = Len(call[c].requested)
                  /\ call[c].page > 1 => PageLess(call[c].page - 1, call[c].lastTotal))
    /\ \A c \in Callers : InFlight(c) ~> Done(c)
StoppedByLimit ==
    \E c \in Callers :
        Done(c) /\ call[c].ended = "limit" /\ Len(call[c].requested) = SafetyLimit

\* C10: a call that starts after another call has completed, with no clear
\* in between, issues no request and returns the set the completed call returned.
LaterCallSameSet ==
    \A c \in Callers :
        Done(c) =>
            \A d \in call[c].after :
                call[c].requested = << >> /\ call[c].result = call[d].result

\* identifiers that contain an entry of the static table without being one
ContainingNames == {"golang-go", "vscode --classic"}
WideSnaps == QueriedSnaps \cup ContainingNames
ContainsEntry(id) == \E e \in KNOWN_VERIFIED_SNAP_PACKAGES : Includes(id, e)
Cached(k) == k \in DOMAIN snapVerifiedCache

\* C12 as stated: once snapLoaded, an identifier that equals an entry of the
\* static table or contains one as a substring is verified.
ContainingIsVerified ==
    snapLoaded => \A id \in WideSnaps : ContainsEntry(id) => isVerified("snap", id)

\* C12 amended: the static table makes an identifier verified exactly when its
\* canonical identifier equals an entry; for an identifier the cache does not
\* hold, isVerified is true iff snapLoaded and the canonical identifier is an
\* entry, also when the identifier contains an entry as a substring.
ExactEntryIsVerified ==
    \A id \in WideSnaps :
        ~Cached(id) /\ ~Cached(CleanName(id)) =>
            (isVerified("snap", id) <=>
                snapLoaded /\ CleanName(id) \in KNOWN_VERIFIED_SNAP_PACKAGES)
ContainingNotVerified ==
    /\ snapLoaded
    /\ ContainsEntry("golang-go") /\ ~isVerified("snap", "golang-go")
    /\ ContainsEntry("vscode --classic") /\ ~isVerified("snap", "vscode --classic")
    /\ isVerified("snap", "code --classic")

\* a step in which slot s begins a call that issues a request
IssuesRequest(s) ==
    /\ snapCall[s].pc \in {"idle", "done"}
    /\ snapCall'[s].pc = "awaitFetch"
\* clearVerificationCache empties a cache that held entries
ClearsSnapCache == snapVerifiedCache # << >> /\ snapVerifiedCache' = << >>

\* C15: every key of the per-item cache is a canonical identifier, and a fetch
\* for an identifier issues no request when the cache holds an entry written
\* by a completed fetch of the same canonical identifier.
CanonicalKeys ==
    /\ [](\A k \in DOMAIN snapVerifiedCache : CleanName(k) = k)
    /\ [][\A s \in SnapSlots :
            IssuesRequest(s) =>
                \A k \in DOMAIN snapVerifiedCache :
                    CleanName(k) # Val(snapCall'[s].asked)]_vars

\* C13: a failed attempt is recorded as false and the record is final: while
\* the failed call's entry is in the cache (no clearVerificationCache), the
\* entry stays false, so that every later fetch of the identifier returns
\* false, and such a fetch issues no request.
FailureIsFinal ==
    /\ [](\A s \in SnapSlots :
            snapCall[s].failed => snapCall[s].result = Some(FALSE))
    /\ [][\A s \in SnapSlots :
            /\ snapCall[s].failed
            /\ MapGet(snapVerifiedCache, snapCall[s].snapName) = Some(FALSE)
            /\ ~ClearsSnapCache
            => /\ MapGet(snapVerifiedCache', snapCall[s].snapName) = Some(FALSE)
               /\ \A t \in SnapSlots :
                     IssuesRequest(t) =>
                         snapCall'[t].snapName # snapCall[s].snapName]_vars

\* C18: an entry of the per-item cache, once written, stays in the cache with
\* the same value in every step but a clearVerificationCache.
EntriesStable ==
    [][~ClearsSnapCache =>
         \A k \in DOMAIN snapVerifiedCache :
             MapGet(snapVerifiedCache', k) = MapGet(snapVerifiedCache, k)]_vars

\* C20: once snapLoaded, an identifier whose canonical identifier is in the
\* static table is verified in every state, whatever the per-item cache holds.
StaticTableWins ==
    snapLoaded =>
        \A id \in WideSnaps :
            CleanName(id) \in KNOWN_VERIFIED_SNAP_PACKAGES =>
                /\ isVerified("snap", id)
                /\ getVerificationType("snap", id) = Some("snap")
CachedFalseStillVerified ==
    /\ snapLoaded
    /\ Cached("code") /\ ~snapVerifiedCache["code"]
    /\ Cached("code --classic") /\ ~snapVerifiedCache["code --classic"]
    /\ isVerified("snap", "code") /\ isVerified("snap", "code --classic")

\* a step in which caller c begins a call of fetchFlathubVerifiedApps
BeginsCall(c) ==
    /\ call[c].pc \in {"idle", "done"}
    /\ \/ call'[c].pc = "awaitFetch"
       \/ /\ call'[c].ended = "cached"
          /\ [call'[c] EXCEPT !.after = {}] # [call[c] EXCEPT !.after = {}]

\* C14: right after clearVerificationCache both caches are in their initial
\* state, and the next call of fetchFlathubVerifiedApps requests page 1
\* instead of returning a set.
ClearThenFreshTraversal ==
    /\ [][cleared' /\ ~cleared =>
            flathubVerifiedCache' = Null /\ snapVerifiedCache' = << >>]_vars
    /\ [][\A c \in Callers :
            cleared /\ BeginsCall(c) =>
                /\ call'[c].pc = "awaitFetch"
                /\ call'[c].requested = << 1 >>]_vars

\* C17: the bulk set is Null while no bulk fetch has completed, and once it
\* is a set its contents change in no step but a clearVerificationCache.
BulkSetImmutable ==
    /\ [](completed = {} => flathubVerifiedCache = Null)
    /\ [][flathubVerifiedCache # Null /\ flathubVerifiedCache' # Null =>
            flathubVerifiedCache' = flathubVerifiedCache]_vars

\* C19: once the latch is set it stays set and the hook begins no further
\* call of fetchFlathubVerifiedApps, and a step in which the effect runs
\* again changes no flag, no call and no cache.
OneShotLatch ==
    [][/\ fetchedRef => fetchedRef' /\ ~BeginsCall("hook")
       /\ remounted' # remounted =>
             UNCHANGED << bulkVars, snapVars, isLoading, hasError,
                          flathubLoaded, snapLoaded, fetchedRef, effect >>]_vars
RemountedInFlight ==
    /\ remounted
    /\ effect = "awaiting"
    /\ InFlight("hook")
    /\ call["hook"].requested = << 1 >>

Outstanding == {p \in ManySlots : snapCall[p].pc \in {"awaitFetch", "awaitJson"}}
\* a step in which the results of the current batch are stored
StoresBatch == many.pc = "awaitBatch" /\ many'.i # many.i
CurrentBatch == Elems(many.issued[Len(many.issued)])

\* C11: a returned mapping has exactly the distinct input identifiers as its
\* keys, whatever the list and whichever requests failed; the result stored
\* for a failed call is false; the call has no state but idle, awaiting a
\* batch and returned.
ManyCoversInput ==
    /\ [](many.pc \in {"idle", "awaitBatch", "done"})
    /\ [](many.pc = "done" => DOMAIN many.results = Elems(many.input))
    /\ [][StoresBatch =>
            \A p \in CurrentBatch :
                /\ many'.results[p] = Val(snapCall[p].result)
                /\ snapCall[p].failed => ~many'.results[p]]_vars
ManyDoneDespiteFailures ==
    /\ many.pc = "done"
    /\ many.input = Twelve
    /\ many.someFailed
    /\ \A p \in CurrentBatch : ~snapCall[p].failed
    /\ DOMAIN many.results = Elems(Twelve)
    /\ \E p \in Elems(Twelve) : many.results[p]

\* C16: a returned call has issued ceil(n/5) batches that split the distinct
\* identifiers in input order, every batch of 5 but the last; a batch is
\* issued only in a state where no request of the call is outstanding; at
\* most 5 requests of the call are outstanding in any state.
BatchesOfFive ==
    /\ [](many.pc = "done" =>
            LET n == Len(many.uniquePackages)
                b == Len(many.issued)
            IN  /\ b = (n + 4) \div 5
                /\ \A k \in 1..b :
                      /\ Len(many.issued[k]) = IF k < b THEN 5 ELSE n - 5 * (b - 1)
                      /\ \A j \in 1..Len(many.issued[k]) :
                            many.issued[k][j] = many.uniquePackages[5 * (k - 1) + j])
    /\ [](Cardinality(Outstanding) <= 5)
    /\ [][many'.issued # many.issued /\ many'.pc = "awaitBatch" =>
            Outstanding = {}]_vars
TwelveInThreeBatches ==
    /\ many.pc = "done"
    /\ many.input = Twelve
    /\ Len(many.issued) = 3
    /\ << Len(many.issued[1]), Len(many.issued[2]), Len(many.issued[3]) >>
          = << 5, 5, 2 >>

====
